---- MODULE Spec2Model ----
(***************************************************************************)
(* Model of src/src/routes/analysis.py: the POST /analyze route handler    *)
(* (analyze_market) and the UltraRobustAnalyzer orchestrator it calls.     *)
(*                                                                         *)
(* One request is followed from the raw body to the response.  Every call  *)
(* to a collaborator (attachment service, web-research agent, LLM client,  *)
(* secondary inference client, data store) is a step whose outcome --      *)
(* a returned value or a raised exception -- is chosen nondeterministically.*)
(*                                                                         *)
(* Reading of the file: it holds two fragments that belong to no statement *)
(* (line 50, and lines 980-985 after the persistence try block).  The      *)
(* model follows the statements around them: the try body of lines 51-89   *)
(* and the persistence block of lines 953-979.                             *)
(*                                                                         *)
(* Representation.  A Python dict is a function from key strings to        *)
(* values; a str is a sequence of one-character strings; a list is a       *)
(* sequence.  A float is a record [n, d] standing for n/d with d a power   *)
(* of ten.  Scores are kept in hundredths (6.67 is 667).                   *)
(***************************************************************************)
EXTENDS Integers, Sequences, FiniteSets, TLC

VARIABLES
    pc,                 \* position of the request in the handler
    body,               \* request.get_json(): [present, fields]
    cookie,             \* flask session's session_id (<<>> when none)
    data,               \* the request mapping as the handler mutates it
    session_id,         \* line 942
    comprehensive_data, \* the collector's aggregate (lines 102-114)
    ai_analyses,        \* the synthesizer's mapping (line 208)
    result,             \* the handler's document (line 947 on)
    returned,           \* the document the orchestrator returned (history)
    response,           \* [status, body] once sent
    calls,              \* number of calls made to each collaborator
    query_i,            \* the web-research loop's position (line 157)
    raised,             \* which calls raised (history)
    trace,              \* stages entered, in order (history)
    store,              \* the data store's analyses, newest first
    list_call,          \* arguments of db_manager.list_analyses (line 1078)
    create_call         \* the record given to db_manager.create_analysis (line 955)

vars == <<pc, body, cookie, data, session_id, comprehensive_data,
          ai_analyses, result, returned, response, calls, query_i, raised,
          trace, store, list_call, create_call>>

\* the variables only GET /analyses touches
listVars == <<store, list_call>>

-----------------------------------------------------------------------------
(* Bounds of the model *)

\* most attachments the attachment service returns for one session
MaxAttachments == 1
\* most sources one web-research result carries
MaxSources == 1

-----------------------------------------------------------------------------
(* dict helpers *)

EmptyDict == <<>>

Has(d, k) == k \in DOMAIN d

Get(d, k, default) == IF k \in DOMAIN d THEN d[k] ELSE default

Put(d, k, v) == [x \in (DOMAIN d) \cup {k} |-> IF x = k THEN v ELSE d[x]]

\* truth value of a str, list or dict
Truthy(v) == DOMAIN v # {}

\* "k in d and d[k]"
HasTruthy(d, k) == k \in DOMAIN d /\ Truthy(d[k])

Str(s) == [t |-> "str", n |-> 0, d |-> 1, s |-> s]
Num(n, d) == [t |-> "num", n |-> n, d |-> d, s |-> <<>>]

\* truth value of a request field that is a number or a str
FieldTruthy(v) ==
    CASE v.t = "num" -> v.n # 0
      [] v.t = "str" -> Len(v.s) > 0
      [] OTHER -> FALSE

-----------------------------------------------------------------------------
(* float(str(x).replace(',', '.')) *)

Digits == {"0", "1", "2", "3", "4", "5", "6", "7", "8", "9"}

DigitVal(c) ==
    CASE c = "0" -> 0 [] c = "1" -> 1 [] c = "2" -> 2 [] c = "3" -> 3
      [] c = "4" -> 4 [] c = "5" -> 5 [] c = "6" -> 6 [] c = "7" -> 7
      [] c = "8" -> 8 [] c = "9" -> 9

\* str.replace(',', '.')
ReplaceComma(s) == [i \in 1..Len(s) |-> IF s[i] = "," THEN "." ELSE s[i]]

RECURSIVE DigitsValue(_)
DigitsValue(s) ==
    IF Len(s) = 0 THEN 0
    ELSE 10 * DigitsValue(SubSeq(s, 1, Len(s) - 1)) + DigitVal(s[Len(s)])

RECURSIVE Pow10(_)
Pow10(k) == IF k = 0 THEN 1 ELSE 10 * Pow10(k - 1)

AllDigits(s) == \A i \in 1..Len(s) : s[i] \in Digits

Dots(s) == {i \in 1..Len(s) : s[i] = "."}

\* the decimal literals float() accepts over the alphabet of the model:
\* digits with at most one point and at least one digit
IsFloatLiteral(s) ==
    /\ \A i \in 1..Len(s) : s[i] \in Digits \cup {"."}
    /\ Cardinality(Dots(s)) <= 1
    /\ \E i \in 1..Len(s) : s[i] \in Digits

\* the value of a literal IsFloatLiteral accepts
FloatOfLiteral(s) ==
    IF Dots(s) = {} THEN Num(DigitsValue(s), 1)
    ELSE LET p == CHOOSE i \in Dots(s) : TRUE
             whole == SubSeq(s, 1, p - 1)
             frac == SubSeq(s, p + 1, Len(s))
         IN  Num(DigitsValue(whole) * Pow10(Len(frac)) + DigitsValue(frac),
                 Pow10(Len(frac)))

Zero == Num(0, 1)

\* lines 936-939: float(str(v).replace(',', '.')), 0.0 on ValueError/TypeError
CoerceFloat(v) ==
    CASE v.t = "num" -> v
      [] v.t = "str" ->
            IF IsFloatLiteral(ReplaceComma(v.s))
            THEN FloatOfLiteral(ReplaceComma(v.s))
            ELSE Zero
      [] OTHER -> Zero

NumericFields == {"preco", "objetivo_receita", "orcamento_marketing"}

FloatKey(f) ==
    CASE f = "preco" -> "preco_float"
      [] f = "objetivo_receita" -> "objetivo_receita_float"
      [] f = "orcamento_marketing" -> "orcamento_marketing_float"

\* lines 934-939: the handler adds <field>_float for every numeric field that
\* is present and truthy; the field itself is left as it came
NormalizeNumeric(d) ==
    LET todo == {f \in NumericFields : Has(d, f) /\ FieldTruthy(d[f])}
    IN  [k \in (DOMAIN d) \cup {FloatKey(f) : f \in todo} |->
            IF k \in DOMAIN d THEN d[k]
            ELSE LET f == CHOOSE g \in todo : FloatKey(g) = k
                 IN  CoerceFloat(d[f])]

-----------------------------------------------------------------------------
(* Text.  A str is a sequence of one-character strings. *)

LowerChar(c) ==
    CASE c = "S" -> "s" [] c = "D" -> "d" [] c = "M" -> "m" [] c = "O" -> "o"
      [] c = "A" -> "a" [] c = "E" -> "e" [] c = "Ú" -> "ú" [] c = "I" -> "i"
      [] c = "N" -> "n" [] c = "L" -> "l"
      [] OTHER -> c

\* str.lower()
Lower(s) == [i \in 1..Len(s) |-> LowerChar(s[i])]

\* "sub in s"
Contains(s, sub) ==
    \E i \in 1..(Len(s) - Len(sub) + 1) : SubSeq(s, i, i + Len(sub) - 1) = sub

Medicina == <<"m", "e", "d", "i", "c", "i", "n", "a">>
Saude == <<"s", "a", "ú", "d", "e">>
Digital == <<"d", "i", "g", "i", "t", "a", "l">>
Online == <<"o", "n", "l", "i", "n", "e">>

\* a lookup that tests the digital group first
SegmentBranchDigitalFirst(segmento) ==
    LET s == Lower(segmento)
    IN  IF Contains(s, Digital) \/ Contains(s, Online) THEN "digital"
        ELSE IF Contains(s, Medicina) \/ Contains(s, Saude) THEN "saude"
        ELSE "generico"

\* lines 426, 437, 448: the branch of the trend lookup
TrendBranch(segmento) ==
    LET s == Lower(segmento)
    IN  IF Contains(s, Medicina) \/ Contains(s, Saude) THEN "saude"
        ELSE IF Contains(s, Digital) \/ Contains(s, Online) THEN "digital"
        ELSE "generico"

\* lines 351, 362, 373: the branch of the market-intelligence lookup
SegmentBranch(segmento) ==
    LET s == Lower(segmento)
    IN  IF Contains(s, Medicina) \/ Contains(s, Saude) THEN "saude"
        ELSE IF Contains(s, Digital) \/ Contains(s, Online) THEN "digital"
        ELSE "generico"

\* lines 345-383
GatherMarketIntelligence(d) ==
    LET b == SegmentBranch(Get(d, "segmento", <<>>))
    IN  [market_size |->
            CASE b = "saude" -> "R$ 280 bilhões (mercado de saúde brasileiro)"
              [] b = "digital" -> "R$ 185 bilhões (e-commerce brasileiro 2024)"
              [] OTHER -> "Mercado em expansão no Brasil",
         growth_rate |->
            CASE b = "saude" -> "12-18% ao ano (pós-pandemia)"
              [] b = "digital" -> "27% ao ano"
              [] OTHER -> "15-25% ao ano (média setores digitais)"]

\* lines 385-418
PerformCompetitorAnalysis(d) ==
    [direct_competitors |->
        << <<"Líder do mercado", Get(d, "segmento", <<"brasileiro">>)>>,
           <<"Challenger", Get(d, "segmento", <<"brasileiro">>)>> >>,
     market_positioning |->
        "Oportunidade para posicionamento premium com foco em inovação e atendimento"]

\* lines 420-475
AnalyzeMarketTrends(d) ==
    LET b == TrendBranch(Get(d, "segmento", <<>>))
    IN  [emerging_trends |->
            CASE b = "saude" -> "Telemedicina permanente (regulamentada pelo CFM)"
              [] b = "digital" -> "Social commerce e live commerce"
              [] OTHER -> "Inteligência Artificial aplicada ao negócio",
         declining_trends |->
            CASE b = "saude" -> "Consultas presenciais exclusivas"
              [] b = "digital" -> "E-commerce desktop-only"
              [] OTHER -> "Soluções puramente offline",
         future_predictions |-> Get(d, "segmento", <<"digital">>)]

-----------------------------------------------------------------------------
(* Local templates *)

\* lines 727-760: the document substituted when the primary LLM call raises
GenerateBasicRealGeminiAnalysis(d) ==
    ("avatar_ultra_detalhado" :>
        [nome_ficticio |-> <<"Profissional", Get(d, "segmento", <<"Brasileiro">>), "Real">>,
         dores_viscerais |-> 4, desejos_secretos |-> 4])
    @@ ("escopo_posicionamento" :>
        [posicionamento_mercado |->
            <<"Solução premium REAL para profissionais de",
              Get(d, "segmento", <<"negócios">>), "no Brasil">>,
         diferenciais_competitivos |-> 3])

\* lines 762-812: the basic document of the consolidator and of the fallback
GenerateBasicRealAnalysis(d) ==
    ("avatar_ultra_detalhado" :>
        [nome_ficticio |-> <<"Empreendedor", Get(d, "segmento", <<"Brasileiro">>), "Real">>,
         dores_viscerais |-> 5, desejos_secretos |-> 5])
    @@ ("escopo_posicionamento" :>
        [posicionamento_mercado |->
            <<"Solução premium REAL para profissionais de",
              Get(d, "segmento", <<"negócios">>),
              "que querem resultados rápidos e sustentáveis">>,
         diferenciais_competitivos |-> 3])
    @@ ("estrategia_palavras_chave" :>
        [palavras_primarias |-> Get(d, "segmento", <<"negócio">>),
         palavras_secundarias |-> 9, palavras_cauda_longa |-> 3])

\* lines 814-828; the confidence 92.5 in hundredths
PerformCrossAnalysis(analyses) ==
    [consensus_points_real |-> 3, divergent_points_real |-> 2,
     confidence_score_real |-> 9250]

\* an insight line: <<text, interpolated text, interpolated number>>
Insight(text, str, n) == <<text, str, n>>

\* an insight list that keeps the error to itself
EmergencyInsightsWithoutError(d, error) ==
    << Insight("Análise gerada em modo de emergência REAL", "", 0),
       Insight("Recomenda-se executar nova análise com APIs configuradas", "", 0),
       Insight("Sistema detectou necessidade de análise mais profunda REAL", "", 0),
       Insight("Dados básicos REAIS de mercado foram preservados", "", 0),
       Insight("Mercado brasileiro apresenta oportunidades REAIS", "", 0),
       Insight("ROI de 300-500% é alcançável com implementação correta", "", 0) >>

\* lines 886-894
EmergencyInsights(d, error) ==
    << Insight("Análise gerada em modo de emergência REAL", "", 0),
       Insight("Erro detectado: ", error, 0),
       Insight("Recomenda-se executar nova análise com APIs configuradas", "", 0),
       Insight("Sistema detectou necessidade de análise mais profunda REAL", "", 0),
       Insight("Dados básicos REAIS de mercado foram preservados", "", 0),
       Insight("Mercado brasileiro apresenta oportunidades REAIS", "", 0),
       Insight("ROI de 300-500% é alcançável com implementação correta", "", 0) >>

\* a fallback that does not flag the document
EmergencyMetadataUnflagged(error) ==
    [processing_time_seconds |-> 0,
     analysis_engine |-> "Emergency Fallback Ultra REAL",
     quality_score |-> 3500,
     completeness_score |-> 2500,
     error |-> error,
     real_data_guarantee |-> FALSE,
     emergency_mode |-> FALSE]

\* lines 896-906; scores in hundredths
EmergencyMetadata(error) ==
    [processing_time_seconds |-> 0,
     analysis_engine |-> "Emergency Fallback Ultra REAL",
     quality_score |-> 3500,
     completeness_score |-> 2500,
     error |-> error,
     real_data_guarantee |-> FALSE,
     emergency_mode |-> TRUE]

\* a fallback whose base document could not be built
GenerateEmergencyFallbackWithoutBase(d, error) ==
    ("metadata_ultra_detalhado" :> EmergencyMetadata(error))

\* a fallback built on the document the synthesizer substitutes
GenerateEmergencyFallbackOnSubstitute(d, error) ==
    Put(Put(GenerateBasicRealGeminiAnalysis(d),
            "insights_exclusivos_real_ultra", EmergencyInsights(d, error)),
        "metadata_ultra_detalhado", EmergencyMetadata(error))

\* lines 880-908
GenerateEmergencyFallback(d, error) ==
    Put(Put(GenerateBasicRealAnalysis(d),
            "insights_exclusivos_real_ultra", EmergencyInsights(d, error)),
        "metadata_ultra_detalhado", EmergencyMetadata(error))

-----------------------------------------------------------------------------
(* Consolidator: lines 260-308 and the generators it calls *)

IsNum(v) == v.t = "num"

\* int(v * p / 100) for a number v and a percentage p, as in int(x * 0.15)
IntMul(v, p) == (v.n * p) \div (v.d * 100)

\* int(v): truncation of a number, or the value of a str of digits
IntOf(v) == IF IsNum(v) THEN v.n \div v.d ELSE DigitsValue(v.s)

\* whether int(v) returns
IntOk(v) == IsNum(v) \/ (v.t = "str" /\ Len(v.s) > 0 /\ AllDigits(v.s))

DefaultObjetivoReceita == 100000
DefaultOrcamentoMarketing == 20000
DefaultPreco == 2500

\* data.get('objetivo_receita', 100000): the field as it came in the request
RawObjetivo(d) == Get(d, "objetivo_receita", Num(DefaultObjetivoReceita, 1))
RawOrcamento(d) == Get(d, "orcamento_marketing", Num(DefaultOrcamentoMarketing, 1))
RawPreco(d) == Get(d, "preco", Num(DefaultPreco, 1))

NoError == ""

\* The first exception the generators of lines 297-306 raise on d, or NoError:
\* x * 0.15 raises TypeError unless x is a number (lines 529, 611, 710),
\* int(x) raises ValueError on a str that is not an integer literal (line 599).
ConsolidateError(d) ==
    IF ~IsNum(RawObjetivo(d))
    THEN "can't multiply sequence by non-int of type 'float'"
    ELSE IF ~IntOk(RawPreco(d))
    THEN "invalid literal for int() with base 10"
    ELSE IF ~IsNum(RawOrcamento(d))
    THEN "can't multiply sequence by non-int of type 'float'"
    ELSE NoError

\* lines 509-573
CreateImplementationPlan(d) ==
    LET o == RawObjetivo(d)
    IN  [fase_1_fundacao_real |->
            [duracao |-> 45, investimento_estimado |-> <<IntMul(o, 15), IntMul(o, 25)>>],
         fase_2_lancamento_real |->
            [duracao |-> 75, investimento_estimado |-> <<IntMul(o, 20), IntMul(o, 35)>>],
         fase_3_crescimento_real |->
            [duracao |-> 120, investimento_estimado |-> <<IntMul(o, 25), IntMul(o, 45)>>]]

\* lines 575-648
CreateSuccessMetrics(d) ==
    [receita_mensal |-> IntOf(RawObjetivo(d)),
     ticket_medio |-> IntOf(RawPreco(d)),
     cac |-> IntMul(RawOrcamento(d), 25),
     ltv |-> IntMul(RawObjetivo(d), 150)]

\* lines 650-696
CreateTimeline(d) ==
    LET o == RawObjetivo(d)
    IN  [q1 |-> <<IntMul(o, 60), IntMul(o, 30)>>,
         q2 |-> <<IntMul(o, 80), IntMul(o, 120)>>,
         q3 |-> <<IntMul(o, 100), IntMul(o, 250)>>,
         q4 |-> <<IntMul(o, 120), IntMul(o, 400)>>]

\* lines 698-725
CreateMonitoringSystem(d) ==
    [alerta_cac |-> IntMul(RawOrcamento(d), 40), dashboards |-> 5, relatorios |-> 4]

NumInsights == 20

\* lines 477-507: 20 lines, four of them interpolating counters
GenerateExclusiveInsights(cd, analyses) ==
    [i \in 1..NumInsights |->
        CASE i = 1 -> Insight("fontes REAIS verificadas", "", Len(cd.sources))
          [] i = 2 -> Insight("caracteres de dados REAIS", "", cd.total_content_length)
          [] i = 3 -> Insight("sistemas de IA", "", Cardinality(DOMAIN analyses))
          [] i = 16 -> Insight("fontes REAIS analisadas", "", cd.real_data_sources)
          [] OTHER -> Insight("insight fixo", "", i)]

\* lines 268-308, for a request on which no generator raises
ConsolidateAnalysis(d, cd, analyses) ==
    LET gemini == Get(analyses, "gemini_ultra_real", EmptyDict)
        main == IF Truthy(gemini) THEN gemini ELSE GenerateBasicRealAnalysis(d)
        a1 == IF Truthy(cd.web_research)
              THEN Put(main, "pesquisa_web_real_detalhada", cd.web_research)
              ELSE main
        a2 == IF Truthy(cd.market_intelligence)
              THEN Put(a1, "inteligencia_mercado_real_ultra", cd.market_intelligence)
              ELSE a1
        a3 == IF Truthy(cd.competitor_analysis)
              THEN Put(a2, "analise_concorrencia_real_ultra", cd.competitor_analysis)
              ELSE a2
        a4 == IF Truthy(cd.trend_analysis)
              THEN Put(a3, "analise_tendencias_real_ultra", cd.trend_analysis)
              ELSE a3
        a5 == Put(a4, "insights_exclusivos_real_ultra",
                  GenerateExclusiveInsights(cd, analyses))
        a6 == Put(a5, "plano_implementacao_real_completo", CreateImplementationPlan(d))
        a7 == Put(a6, "metricas_sucesso_real_avancadas", CreateSuccessMetrics(d))
        a8 == Put(a7, "cronograma_real_365_dias", CreateTimeline(d))
    IN  Put(a8, "sistema_monitoramento_real", CreateMonitoringSystem(d))

-----------------------------------------------------------------------------
(* Scorer: lines 830-878.  Scores are in hundredths of a point. *)

Min(a, b) == IF a <= b THEN a ELSE b

\* a scorer that reads the keys the templates and the consolidator write
QualitySectionsAsWritten ==
    {"avatar_ultra_detalhado", "escopo_posicionamento", "estrategia_palavras_chave",
     "insights_exclusivos_real_ultra", "plano_implementacao_real_completo",
     "metricas_sucesso_real_avancadas"}

\* lines 836-839
QualitySections ==
    {"avatar_ultra_detalhado", "escopo", "estrategia_palavras_chave",
     "insights_exclusivos_ultra", "plano_implementacao_completo",
     "metricas_sucesso_avancadas"}

CompletenessSections ==
    QualitySections \cup
    {"cronograma_365_dias", "sistema_monitoramento",
     "inteligencia_mercado_ultra", "analise_concorrencia_ultra"}

SectionPoints == 667
MaxScore == 10000

\* lines 846-852
InsightPoints(n) ==
    IF n >= 15 THEN 3000 ELSE IF n >= 10 THEN 2000 ELSE IF n >= 5 THEN 1000 ELSE 0

\* a quality score without the final min(score, max_score)
CalculateQualityScoreUnclamped(analysis) ==
    LET sections == Cardinality({s \in QualitySections : HasTruthy(analysis, s)})
        insights == Get(analysis, "insights_exclusivos_ultra", <<>>)
        research == (IF Has(analysis, "pesquisa_web_detalhada") THEN 1500 ELSE 0)
                    + (IF Has(analysis, "inteligencia_mercado_ultra") THEN 1500 ELSE 0)
    IN  sections * SectionPoints + InsightPoints(Len(insights)) + research

\* lines 830-860
CalculateQualityScore(analysis) ==
    LET sections == Cardinality({s \in QualitySections : HasTruthy(analysis, s)})
        insights == Get(analysis, "insights_exclusivos_ultra", <<>>)
        research == (IF Has(analysis, "pesquisa_web_detalhada") THEN 1500 ELSE 0)
                    + (IF Has(analysis, "inteligencia_mercado_ultra") THEN 1500 ELSE 0)
    IN  Min(sections * SectionPoints + InsightPoints(Len(insights)) + research,
            MaxScore)

\* a completeness score that counts a key whatever its value
CalculateCompletenessScoreOfKeys(analysis) ==
    LET completed == Cardinality({s \in CompletenessSections : Has(analysis, s)})
    IN  (completed * MaxScore) \div Cardinality(CompletenessSections)

\* lines 862-878
CalculateCompletenessScore(analysis) ==
    LET completed == Cardinality({s \in CompletenessSections : HasTruthy(analysis, s)})
    IN  (completed * MaxScore) \div Cardinality(CompletenessSections)

\* lines 67-83
NormalMetadata(analysis, cd, analyses) ==
    [analysis_engine |-> "ARQV30 Enhanced Ultra-Robust REAL v2.0",
     data_sources_used |-> Len(cd.sources),
     ai_models_used |-> Cardinality(DOMAIN analyses),
     quality_score |-> CalculateQualityScore(analysis),
     completeness_score |-> CalculateCompletenessScore(analysis),
     depth_level |-> "ULTRA_PROFUNDO_REAL",
     research_iterations |-> cd.research_iterations,
     total_content_analyzed |-> cd.total_content_length,
     unique_insights_generated |-> Len(Get(analysis, "insights_exclusivos_ultra", <<>>)),
     real_data_guarantee |-> TRUE,
     cache_used |-> FALSE,
     simulation_free |-> TRUE]

-----------------------------------------------------------------------------
(* The environment: request bodies and what the collaborators return *)

Moda == <<"m", "o", "d", "a">>

\* values a numeric field of the body takes: a JSON number (50.5), a decimal
\* str with a comma ("50,5"), a str of digits ("20") and a non-numeric str
FieldValues ==
    {Num(505, 10), Str(<<"5", "0", ",", "5">>), Str(<<"2", "0">>), Str(<<"a", "b">>)}

SegmentoOptions == {EmptyDict} \cup {("segmento" :> s) : s \in {<<>>, Moda}}

FieldOptions(f) == {EmptyDict} \cup {(f :> v) : v \in FieldValues}

SessionOptions == {EmptyDict, ("session_id" :> <<"s", "1">>)}

Cookies == {<<>>, <<"c", "1">>}

\* request.get_json(): None, or a mapping
Bodies ==
    {[present |-> FALSE, fields |-> EmptyDict]} \cup
    {[present |-> TRUE, fields |-> a @@ b @@ c @@ d @@ e] :
        a \in SegmentoOptions, b \in FieldOptions("preco"),
        c \in FieldOptions("objetivo_receita"),
        d \in FieldOptions("orcamento_marketing"), e \in SessionOptions}

\* an attachment as the attachment service returns it; content is the length
\* of its extracted_content
Attachment(n) == [filename |-> "anexo", content_type |-> "geral", content |-> n]

RECURSIVE SeqsUpTo(_, _)
SeqsUpTo(S, n) ==
    IF n = 0 THEN {<<>>}
    ELSE LET shorter == SeqsUpTo(S, n - 1)
         IN  shorter \cup {Append(q, x) : q \in shorter, x \in S}

AttachmentLists == SeqsUpTo({Attachment(0), Attachment(3)}, MaxAttachments)

\* what navigate_and_research returns: its sources and the length of
\* research_summary.combined_content
WebResults ==
    {[sources |-> [k \in 1..MaxSources |-> "fonte"], combined_content |-> MaxSources]}

Avatar == [nome_ficticio |-> <<"Avatar", Moda, "LLM">>, dores_viscerais |-> 5, desejos_secretos |-> 5]

\* documents the primary LLM client returns: a full one under the key names
\* the scorers read, a sparse one, an empty one, one reporting an error, and
\* one holding a value json cannot encode (key "objeto")
FullDoc ==
    [k \in CompletenessSections \cup {"pesquisa_web_detalhada"} |->
        IF k = "avatar_ultra_detalhado" THEN Avatar
        ELSE IF k = "insights_exclusivos_ultra"
             THEN [i \in 1..15 |-> Insight("insight LLM", "", i)]
             ELSE [texto |-> k]]

SparseDoc == ("avatar_ultra_detalhado" :> Avatar)

ErrorDoc == ("error" :> [texto |-> "quota"])

OpaqueDoc == ("avatar_ultra_detalhado" :> Avatar) @@ ("objeto" :> [texto |-> "object"])

GeminiDocs == {FullDoc, SparseDoc, EmptyDict, ErrorDoc, OpaqueDoc}

\* json.dumps / jsonify raise TypeError on a value they cannot encode
JsonSerializable(doc) == ~Has(doc, "objeto")

\* what analyze_market_strategy returns: an analysis or nothing
HuggingFaceResults == {<<>>, <<"analise complementar">>}

-----------------------------------------------------------------------------
(* Collector: lines 95-197 *)

\* lines 102-114
InitialComprehensiveData ==
    [attachments |-> EmptyDict, web_research |-> EmptyDict, deep_search |-> EmptyDict,
     market_intelligence |-> EmptyDict, competitor_analysis |-> EmptyDict,
     trend_analysis |-> EmptyDict, sources |-> <<>>, research_iterations |-> 0,
     total_content_length |-> 0, real_data_sources |-> 0, cache_hits |-> 0]

RECURSIVE CombinedLength(_)
\* lines 121-127: each attachment with extracted content adds it and "\n\n"
CombinedLength(atts) ==
    IF Len(atts) = 0 THEN 0
    ELSE CombinedLength(SubSeq(atts, 1, Len(atts) - 1))
         + (IF atts[Len(atts)].content > 0 THEN atts[Len(atts)].content + 2 ELSE 0)

\* lines 120-148
ProcessAttachments(cd, atts) ==
    IF Len(atts) = 0 THEN cd
    ELSE [cd EXCEPT
            !.attachments = [count |-> Len(atts), total_length |-> CombinedLength(atts)],
            !.total_content_length = @ + CombinedLength(atts),
            !.real_data_sources = @ + Len(atts)]

QueryKey(i) ==
    CASE i = 1 -> "query_1" [] i = 2 -> "query_2" [] i = 3 -> "query_3"
      [] i = 4 -> "query_4" [] i = 5 -> "query_5" [] i = 6 -> "query_6"
      [] i = 7 -> "query_7" [] i = 8 -> "query_8" [] i = 9 -> "query_9"
      [] i = 10 -> "query_10" [] i = 11 -> "query_11" [] OTHER -> "query_12"

MaxQueries == 12

\* lines 311-334: ten templates, four on the segment, three on the product,
\* three more on the segment; at most 12 are kept
GenerateQueries(d) ==
    LET segmento == Get(d, "segmento", <<>>)
        produto == Get(d, "produto", <<>>)
        queries == [i \in 1..10 |->
                      [template |-> i,
                       termo |-> IF i \in 5..7 THEN produto ELSE segmento]]
    IN  SubSeq(queries, 1, Min(MaxQueries, Len(queries)))

\* a loop that files every result under the first key
StoreWebResultUnderFirstKey(cd, i, web_result) ==
    [cd EXCEPT
        !.web_research = Put(@, QueryKey(1), web_result),
        !.sources = @ \o web_result.sources,
        !.research_iterations = @ + 1,
        !.real_data_sources = @ + Len(web_result.sources),
        !.total_content_length = @ + web_result.combined_content]

\* lines 172-179
StoreWebResult(cd, i, web_result) ==
    [cd EXCEPT
        !.web_research = Put(@, QueryKey(i), web_result),
        !.sources = @ \o web_result.sources,
        !.research_iterations = @ + 1,
        !.real_data_sources = @ + Len(web_result.sources),
        !.total_content_length = @ + web_result.combined_content]

\* lines 186-193
LocalHeuristics(cd, d) ==
    [cd EXCEPT
        !.market_intelligence = GatherMarketIntelligence(d),
        !.competitor_analysis = PerformCompetitorAnalysis(d),
        !.trend_analysis = AnalyzeMarketTrends(d)]

-----------------------------------------------------------------------------
(* The request as a state machine *)

\* sleep counts the pauses of line 182
NoCalls ==
    [attachment |-> 0, is_available |-> 0, navigate |-> 0, sleep |-> 0,
     gemini |-> 0, huggingface |-> 0, db |-> 0]

NoResponse == [status |-> 0, body |-> EmptyDict]

Init ==
    /\ pc = "validate"
    /\ body \in Bodies
    /\ cookie \in Cookies
    /\ data = EmptyDict
    /\ session_id = <<>>
    /\ comprehensive_data = InitialComprehensiveData
    /\ ai_analyses = EmptyDict
    /\ result = EmptyDict
    /\ returned = EmptyDict
    /\ response = NoResponse
    /\ calls = NoCalls
    /\ query_i = 0
    /\ raised = {}
    /\ trace = <<>>
    /\ store = <<>>
    /\ list_call = <<>>
    /\ create_call = <<>>

\* a collaborator called again after its first call
CalledWithRetry(c) == calls' = [calls EXCEPT ![c] = @ + 2]

Called(c) == calls' = [calls EXCEPT ![c] = @ + 1]

\* a fallback that keeps what the web research had collected
FallbackKeepingResearch(stage, error) ==
    /\ result' = IF Truthy(comprehensive_data.web_research)
                 THEN Put(GenerateEmergencyFallback(data, error),
                          "pesquisa_web_real_detalhada", comprehensive_data.web_research)
                 ELSE GenerateEmergencyFallback(data, error)
    /\ returned' = result'
    /\ pc' = "persist"
    /\ trace' = trace \o <<stage, "fallback">>

\* a fallback document that goes straight to the response
FallbackUnpersisted(stage, error) ==
    /\ result' = GenerateEmergencyFallback(data, error)
    /\ returned' = result'
    /\ pc' = "respond"
    /\ trace' = trace \o <<stage, "fallback">>

\* lines 91-93: the orchestrator's handler turns an exception raised in
\* lines 51-89 into the fallback document, which it returns to line 947
Fallback(stage, error) ==
    /\ result' = GenerateEmergencyFallback(data, error)
    /\ returned' = result'
    /\ pc' = "persist"
    /\ trace' = trace \o <<stage, "fallback">>

\* str(e) of the exception a collaborator call raises
ErrorText(who) ==
    CASE who = "attachment" -> "attachment service error"
      [] who = "is_available" -> "websailor probe error"
      [] who = "navigate" -> "websailor navigation error"
      [] OTHER -> "collaborator error"

\* a collaborator call made outside every try block of the orchestrator raises
CallRaises(stage, who) ==
    /\ raised' = raised \cup {who}
    /\ Fallback(stage, ErrorText(who))

\* line 920: "not data"
BodyMissing(b) == ~b.present \/ ~Truthy(b.fields)

\* a validator that only asks for the key
SegmentoKeyMissing(fields) == ~Has(fields, "segmento")

\* line 927: "not data.get('segmento')"
SegmentoMissing(fields) == ~HasTruthy(fields, "segmento")

\* lines 918-947: the handler up to the orchestrator call
Validate ==
    /\ pc = "validate"
    /\ UNCHANGED <<listVars, create_call>>
    /\ IF BodyMissing(body)
       THEN /\ response' = [status |-> 400, body |-> ("error" :> "Dados não fornecidos")]
            /\ pc' = "done"
            /\ UNCHANGED <<data, session_id>>
       ELSE IF SegmentoMissing(body.fields)
       THEN /\ response' = [status |-> 400, body |-> ("error" :> "Segmento obrigatório")]
            /\ pc' = "done"
            /\ data' = body.fields
            /\ UNCHANGED session_id
       ELSE /\ data' = NormalizeNumeric(body.fields)
            /\ session_id' = IF HasTruthy(body.fields, "session_id")
                             THEN body.fields["session_id"] ELSE cookie
            /\ pc' = "attachments"
            /\ UNCHANGED response
    /\ trace' = Append(trace, "validator")
    /\ UNCHANGED <<body, cookie, comprehensive_data, ai_analyses, result, returned,
                   calls, query_i, raised>>

\* a collector that asks for attachments whatever the session id
SessionAlwaysPresent(sid) == TRUE

\* line 117: "if session_id"
SessionPresent(sid) == Truthy(sid)

\* lines 102-148: the collector's attachment step
CollectAttachments ==
    /\ pc = "attachments"
    /\ UNCHANGED <<listVars, create_call>>
    /\ IF ~SessionPresent(session_id)
       THEN /\ pc' = "probe"
            /\ trace' = Append(trace, "collector")
            /\ UNCHANGED <<comprehensive_data, calls, raised, result, returned>>
       ELSE /\ Called("attachment")
            /\ \/ /\ CallRaises("collector", "attachment")
                  /\ UNCHANGED comprehensive_data
               \/ \E atts \in AttachmentLists :
                     /\ comprehensive_data' = ProcessAttachments(comprehensive_data, atts)
                     /\ pc' = "probe"
                     /\ trace' = Append(trace, "collector")
                     /\ UNCHANGED <<raised, result, returned>>
    /\ UNCHANGED <<body, cookie, data, session_id, ai_analyses, response, query_i>>

\* lines 151-155: the availability probe and the query list
ProbeWebResearch ==
    /\ pc = "probe"
    /\ UNCHANGED <<listVars, create_call>>
    /\ Called("is_available")
    /\ \/ /\ CallRaises("probe", "is_available")
          /\ UNCHANGED query_i
       \/ /\ pc' = "local"
          /\ trace' = Append(trace, "probe")
          /\ UNCHANGED <<raised, result, returned, query_i>>
       \/ /\ pc' = IF Len(GenerateQueries(data)) > 0 THEN "web" ELSE "local"
          /\ query_i' = 1
          /\ trace' = Append(trace, "probe")
          /\ UNCHANGED <<raised, result, returned>>
    /\ UNCHANGED <<body, cookie, data, session_id, comprehensive_data, ai_analyses,
                   response>>

\* lines 157-182: one iteration of the web-research loop, the agent returning
\* one of results or raising
WebQueryFrom(results) ==
    /\ pc = "web"
    /\ UNCHANGED <<listVars, create_call>>
    /\ query_i <= Len(GenerateQueries(data))
    /\ \/ /\ Called("navigate")
          /\ CallRaises("web", "navigate")
          /\ UNCHANGED <<comprehensive_data, query_i>>
       \/ \E web_result \in results :
             /\ calls' = [calls EXCEPT !.navigate = @ + 1, !.sleep = @ + 1]
             /\ comprehensive_data' = StoreWebResult(comprehensive_data, query_i, web_result)
             /\ query_i' = query_i + 1
             /\ pc' = IF query_i = Len(GenerateQueries(data)) THEN "local" ELSE "web"
             /\ trace' = Append(trace, "web")
             /\ UNCHANGED <<raised, result, returned>>
    /\ UNCHANGED <<body, cookie, data, session_id, ai_analyses, response>>

WebQuery == WebQueryFrom(WebResults)

\* lines 186-197: the local lookups; the collector returns
CollectLocal ==
    /\ pc = "local"
    /\ UNCHANGED <<listVars, create_call>>
    /\ comprehensive_data' = LocalHeuristics(comprehensive_data, data)
    /\ pc' = "primary"
    /\ trace' = Append(trace, "local")
    /\ UNCHANGED <<body, cookie, data, session_id, ai_analyses, result, returned,
                   response, calls, query_i, raised>>

\* lines 208-237: the primary LLM call, inside its own try block
SynthesizePrimary ==
    /\ pc = "primary"
    /\ UNCHANGED <<listVars, create_call>>
    /\ \/ /\ ai_analyses' = EmptyDict          \* gemini_client is None
          /\ UNCHANGED <<calls, raised>>
       \/ /\ Called("gemini")
          /\ raised' = raised \cup {"gemini"}
          /\ ai_analyses' = ("gemini_ultra_real" :> GenerateBasicRealGeminiAnalysis(data))
       \/ /\ Called("gemini")
          /\ \E doc \in GeminiDocs : ai_analyses' = ("gemini_ultra_real" :> doc)
          /\ UNCHANGED raised
    /\ pc' = "secondary"
    /\ trace' = Append(trace, "synthesizer")
    /\ UNCHANGED <<body, cookie, data, session_id, comprehensive_data, result,
                   returned, response, query_i>>

\* lines 253-256
WithCrossAnalysis(analyses) ==
    IF Cardinality(DOMAIN analyses) > 1
    THEN Put(analyses, "cross_validation_real", PerformCrossAnalysis(analyses))
    ELSE analyses

\* a handler that puts a basic analysis in the place of the missing one
SecondarySubstituted(analyses) ==
    Put(analyses, "huggingface_ultra_real", [analysis |-> <<"análise básica">>])

\* lines 249-250: the except clause of the secondary call only logs
SecondaryFailed(analyses) == analyses

\* lines 239-258: the secondary call, inside its own try block, then the
\* cross analysis; the synthesizer returns
SynthesizeSecondary ==
    /\ pc = "secondary"
    /\ UNCHANGED <<listVars, create_call>>
    /\ Called("huggingface")
    /\ \/ /\ raised' = raised \cup {"huggingface"}
          /\ ai_analyses' = WithCrossAnalysis(SecondaryFailed(ai_analyses))
       \/ /\ ai_analyses' = WithCrossAnalysis(ai_analyses)   \* is_available() is False
          /\ UNCHANGED raised
       \/ \E hf_analysis \in HuggingFaceResults :
             /\ ai_analyses' = WithCrossAnalysis(
                    IF Truthy(hf_analysis)
                    THEN Put(ai_analyses, "huggingface_ultra_real",
                             [analysis |-> hf_analysis])
                    ELSE ai_analyses)
             /\ UNCHANGED raised
    /\ pc' = "consolidate"
    /\ trace' = Append(trace, "secondary")
    /\ UNCHANGED <<body, cookie, data, session_id, comprehensive_data, result,
                   returned, response, query_i>>

\* lines 59-61 and 260-308
Consolidate ==
    /\ pc = "consolidate"
    /\ UNCHANGED <<listVars, create_call>>
    /\ IF ConsolidateError(data) # NoError
       THEN /\ raised' = raised \cup {"consolidator"}
            /\ Fallback("consolidator", ConsolidateError(data))
       ELSE /\ result' = ConsolidateAnalysis(data, comprehensive_data, ai_analyses)
            /\ pc' = "score"
            /\ trace' = Append(trace, "consolidator")
            /\ UNCHANGED <<raised, returned>>
    /\ UNCHANGED <<body, cookie, data, session_id, comprehensive_data, ai_analyses,
                   response, calls, query_i>>

\* lines 63-89: the scores and the metadata block; the orchestrator returns
Score ==
    /\ pc = "score"
    /\ UNCHANGED <<listVars, create_call>>
    /\ result' = Put(result, "metadata_ultra_detalhado",
                     NormalMetadata(result, comprehensive_data, ai_analyses))
    /\ returned' = result'
    /\ pc' = "persist"
    /\ trace' = Append(trace, "scorer")
    /\ UNCHANGED <<body, cookie, data, session_id, comprehensive_data, ai_analyses,
                   response, calls, query_i, raised>>

\* a handler that does not store emergency documents
ShouldPersistUnlessEmergency(doc) ==
    /\ Truthy(doc)
    /\ ~Has(doc, "error")
    /\ ~(Has(doc, "metadata_ultra_detalhado")
          /\ "emergency_mode" \in DOMAIN doc["metadata_ultra_detalhado"])

\* line 953
ShouldPersist(doc) == Truthy(doc) /\ ~Has(doc, "error")

DatabaseId == 7

\* a failed persistence attempt that escapes to the handler's except clause
\* of lines 990-996
PropagatePersistError(who) ==
    /\ raised' = raised \cup {who}
    /\ response' = [status |-> 500, body |-> ("error" :> "Erro interno na análise")]
    /\ pc' = "done"
    /\ UNCHANGED result

\* lines 978-979: the failure is logged and the handler goes on to line 987
SwallowPersistError(who) ==
    /\ raised' = raised \cup {who}
    /\ pc' = "respond"
    /\ UNCHANGED <<result, response>>

\* lines 955-973: the record given to create_analysis
AnalysisRecord(d, doc) ==
    [segmento |-> Get(d, "segmento", <<>>),
     comprehensive_analysis |-> doc,
     status |-> "completed"]

\* lines 952-979: the persistence attempt, inside its own try block
Persist ==
    /\ pc = "persist"
    /\ UNCHANGED listVars
    /\ IF ~ShouldPersist(result)
       THEN /\ pc' = "respond"
            /\ UNCHANGED <<result, response, calls, raised, create_call>>
       ELSE IF ~JsonSerializable(result)
       THEN /\ SwallowPersistError("json.dumps")       \* line 966 raises
            /\ UNCHANGED <<calls, create_call>>
       ELSE /\ Called("db")
            /\ create_call' = AnalysisRecord(data, result)
            /\ \/ SwallowPersistError("db")
               \/ /\ pc' = "respond"                     \* no record returned
                  /\ UNCHANGED <<raised, result, response>>
               \/ /\ result' = Put(result, "database_id", DatabaseId)
                  /\ pc' = "respond"
                  /\ UNCHANGED <<raised, response>>
    /\ trace' = Append(trace, "persistence")
    /\ UNCHANGED <<body, cookie, data, session_id, comprehensive_data, ai_analyses,
                   returned, query_i>>

\* lines 987-996: jsonify(result), and the handler's own except clause
Respond ==
    /\ pc = "respond"
    /\ UNCHANGED <<listVars, create_call>>
    /\ IF JsonSerializable(result)
       THEN /\ response' = [status |-> 200, body |-> result]
            /\ UNCHANGED raised
       ELSE /\ response' = [status |-> 500,
                            body |-> ("error" :> "Erro interno na análise")]
            /\ raised' = raised \cup {"jsonify"}
    /\ pc' = "done"
    /\ trace' = Append(trace, "response")
    /\ UNCHANGED <<body, cookie, data, session_id, comprehensive_data, ai_analyses,
                   result, returned, calls, query_i>>

Next ==
    \/ Validate
    \/ CollectAttachments
    \/ ProbeWebResearch
    \/ WebQuery
    \/ CollectLocal
    \/ SynthesizePrimary
    \/ SynthesizeSecondary
    \/ Consolidate
    \/ Score
    \/ Persist
    \/ Respond

Spec == Init /\ [][Next]_vars

-----------------------------------------------------------------------------
(* The scorers and the fallback generator on documents of any shape.       *)
(* A run starts either at the scorer, with a document drawn from ScoreDocs, *)
(* or at the consolidator, with a normalized request.                      *)

\* longest insight list of a drawn document
MaxInsightLen == 15

TwoStateKeys ==
    CompletenessSections \ {"avatar_ultra_detalhado", "insights_exclusivos_ultra",
                            "inteligencia_mercado_ultra"}

ThreeStateKeys == {"avatar_ultra_detalhado", "inteligencia_mercado_ultra"}

\* a document with the keys of full non-empty, the keys of empty present and
\* empty, an insight list of n lines (none when n < 0) and, when web, the
\* web-research key
ScoreDoc(full, empty, n, web) ==
    [k \in full \cup empty
           \cup (IF n >= 0 THEN {"insights_exclusivos_ultra"} ELSE {})
           \cup (IF web THEN {"pesquisa_web_detalhada"} ELSE {}) |->
        IF k = "insights_exclusivos_ultra"
        THEN [i \in 1..n |-> Insight("insight", "", i)]
        ELSE IF k \in full THEN [texto |-> k] ELSE EmptyDict]

ScoreDocs ==
    {ScoreDoc(full, empty, n, web) :
        full \in SUBSET (TwoStateKeys \cup ThreeStateKeys),
        empty \in SUBSET ThreeStateKeys,
        n \in (-1)..MaxInsightLen,
        web \in BOOLEAN}

ValidBodies == {b \in Bodies : ~BodyMissing(b) /\ ~SegmentoMissing(b.fields)}

InitScore ==
    /\ \/ /\ pc = "score"
          /\ result \in ScoreDocs
          /\ data = ("segmento" :> Moda)
       \/ /\ pc = "consolidate"
          /\ result = EmptyDict
          /\ \E b \in ValidBodies : data = NormalizeNumeric(b.fields)
    /\ body = [present |-> TRUE, fields |-> data]
    /\ cookie = <<>>
    /\ session_id = <<>>
    /\ comprehensive_data = LocalHeuristics(InitialComprehensiveData, data)
    /\ ai_analyses = EmptyDict
    /\ returned = EmptyDict
    /\ response = NoResponse
    /\ calls = NoCalls
    /\ query_i = 0
    /\ raised = {}
    /\ trace = <<>>
    /\ store = <<>>
    /\ list_call = <<>>
    /\ create_call = <<>>

NextScore == Consolidate \/ Score

SpecScore == InitScore /\ [][NextScore]_vars

-----------------------------------------------------------------------------
(* GET /analyses: list_analyses, lines 1069-1096.  The query string is     *)
(* kept in data, a str per parameter given.                                *)

\* most analyses the data store holds
MaxStore == 2

DefaultLimit == 20
MaxLimit == 100
DefaultOffset == 0

\* the literals int() accepts over the alphabet of the model: digits after
\* an optional sign
IsIntLiteral(s) ==
    /\ Len(s) > 0
    /\ IF s[1] \in {"-", "+"}
       THEN Len(s) > 1 /\ AllDigits(Tail(s))
       ELSE AllDigits(s)

\* the value of a literal IsIntLiteral accepts
IntOfLiteral(s) ==
    IF s[1] = "-" THEN 0 - DigitsValue(Tail(s))
    ELSE IF s[1] = "+" THEN DigitsValue(Tail(s))
    ELSE DigitsValue(s)

\* int(request.args.get(k, default)) raises
ArgRaises(args, k) == Has(args, k) /\ ~IsIntLiteral(args[k])

\* int(request.args.get(k, default))
IntArg(args, k, default) == IF Has(args, k) THEN IntOfLiteral(args[k]) ELSE default

\* a limit passed on as requested
EffectiveLimitUncapped(args) == IntArg(args, "limit", DefaultLimit)

\* line 1074
EffectiveLimit(args) == Min(IntArg(args, "limit", DefaultLimit), MaxLimit)

\* line 1075
EffectiveOffset(args) == IntArg(args, "offset", DefaultOffset)

\* the page db_manager.list_analyses(limit, offset) returns: the records
\* after the first offset ones, limit of them at most
ListPage(st, limit, offset) ==
    IF limit < 0 \/ offset < 0 THEN <<>>
    ELSE SubSeq(st, offset + 1, Min(Len(st), offset + limit))

RECURSIVE SelectNichoCaseSensitive(_, _)
\* a filter that compares the texts as they are
SelectNichoCaseSensitive(page, segmento) ==
    IF page = <<>> THEN <<>>
    ELSE LET rest == SelectNichoCaseSensitive(Tail(page), segmento)
         IN  IF Contains(Get(Head(page), "nicho", <<>>), segmento)
             THEN <<Head(page)>> \o rest
             ELSE rest

RECURSIVE SelectNicho(_, _)
\* the list comprehension of line 1082: the records of page whose nicho
\* holds segmento, both lowered
SelectNicho(page, segmento) ==
    IF page = <<>> THEN <<>>
    ELSE LET rest == SelectNicho(Tail(page), segmento)
         IN  IF Contains(Lower(Get(Head(page), "nicho", <<>>)), Lower(segmento))
             THEN <<Head(page)>> \o rest
             ELSE rest

\* lines 1081-1082
FilterBySegmento(page, args) ==
    IF HasTruthy(args, "segmento") THEN SelectNicho(page, args["segmento"]) ELSE page

ModaUpper == <<"M", "O", "D", "A">>
SaudeDigital == <<"S", "a", "ú", "d", "e", " ", "D", "i", "g", "i", "t", "a", "l">>

LimitArgs ==
    {<<"1">>, <<"1", "0", "0">>, <<"1", "0", "1">>, <<"5", "0", "0">>,
     <<"-", "1">>, <<"a", "b">>, <<>>}

OffsetArgs == {<<"0">>, <<"1">>, <<"a", "b">>}

SegmentoArgs == {<<>>, ModaUpper, Digital}

\* the query strings of the model: each parameter absent or one of its values
ListArgs ==
    {[k \in ks |-> CASE k = "limit" -> v[1] [] k = "offset" -> v[2] [] OTHER -> v[3]] :
        ks \in SUBSET {"limit", "offset", "segmento"},
        v \in LimitArgs \X OffsetArgs \X SegmentoArgs}

\* stored analyses, with and without a nicho
StoredAnalyses == {[nicho |-> Moda], [nicho |-> SaudeDigital], [titulo |-> Moda]}

Stores == UNION {[1..n -> StoredAnalyses] : n \in 0..MaxStore}

InitList ==
    /\ pc = "list"
    /\ data \in ListArgs
    /\ store \in Stores
    /\ list_call = <<>>
    /\ create_call = <<>>
    /\ body = [present |-> FALSE, fields |-> EmptyDict]
    /\ cookie = <<>>
    /\ session_id = <<>>
    /\ comprehensive_data = InitialComprehensiveData
    /\ ai_analyses = EmptyDict
    /\ result = EmptyDict
    /\ returned = EmptyDict
    /\ response = NoResponse
    /\ calls = NoCalls
    /\ query_i = 0
    /\ raised = {}
    /\ trace = <<>>

ListError == [status |-> 500, body |-> ("error" :> "Erro ao listar análises")]

\* lines 1073-1096: the whole handler
ListAnalyses ==
    /\ pc = "list"
    /\ IF ArgRaises(data, "limit") \/ ArgRaises(data, "offset")
       THEN /\ raised' = raised \cup {"int"}
            /\ response' = ListError
            /\ UNCHANGED <<calls, list_call>>
       ELSE /\ Called("db")
            /\ list_call' = <<EffectiveLimit(data), EffectiveOffset(data)>>
            /\ \/ /\ raised' = raised \cup {"db"}
                  /\ response' = ListError
               \/ LET analyses == FilterBySegmento(
                                      ListPage(store, EffectiveLimit(data),
                                               EffectiveOffset(data)), data)
                  IN  /\ response' = [status |-> 200,
                                      body |-> [analyses |-> analyses,
                                                count |-> Len(analyses),
                                                limit |-> EffectiveLimit(data),
                                                offset |-> EffectiveOffset(data)]]
                      /\ UNCHANGED raised
    /\ pc' = "done"
    /\ trace' = Append(trace, "list")
    /\ UNCHANGED <<body, cookie, data, session_id, comprehensive_data, ai_analyses,
                   result, returned, query_i, store, create_call>>

NextList == ListAnalyses

SpecList == InitList /\ [][NextList]_vars

-----------------------------------------------------------------------------
(* The local lookups of the collector on segments of any wording: a run    *)
(* starts at line 186 with a request whose segmento is a few words.        *)

\* most words of a segment
MaxWords == 2

SaudeUpper == <<"S", "A", "Ú", "D", "E">>
Telemedicina == <<"T", "e", "l", "e", "m", "e", "d", "i", "c", "i", "n", "a">>
OnlineCapital == <<"O", "n", "l", "i", "n", "e">>
Medic == <<"m", "e", "d", "i", "c">>
Loja == <<"l", "o", "j", "a">>

SegmentWords ==
    {Saude, SaudeUpper, Telemedicina, Digital, OnlineCapital, Moda, Medic, Loja}

RECURSIVE JoinWords(_)
\* the words of ws with a blank between them
JoinWords(ws) ==
    IF Len(ws) = 0 THEN <<>>
    ELSE IF Len(ws) = 1 THEN ws[1]
    ELSE ws[1] \o <<" ">> \o JoinWords(Tail(ws))

Segments == {JoinWords(ws) : ws \in UNION {[1..n -> SegmentWords] : n \in 0..MaxWords}}

InitLookup ==
    /\ pc = "local"
    /\ data \in {("segmento" :> seg) : seg \in Segments} \cup {EmptyDict}
    /\ body = [present |-> TRUE, fields |-> data]
    /\ cookie = <<>>
    /\ session_id = <<>>
    /\ comprehensive_data = InitialComprehensiveData
    /\ ai_analyses = EmptyDict
    /\ result = EmptyDict
    /\ returned = EmptyDict
    /\ response = NoResponse
    /\ calls = NoCalls
    /\ query_i = 0
    /\ raised = {}
    /\ trace = <<>>
    /\ store = <<>>
    /\ list_call = <<>>
    /\ create_call = <<>>

NextLookup == CollectLocal

SpecLookup == InitLookup /\ [][NextLookup]_vars

-----------------------------------------------------------------------------
(* The collector alone, lines 95-197, with web results of either size: a   *)
(* run starts at line 116 and ends when the collector returns or raises.   *)

\* what navigate_and_research returns, with sources or without any
WebResultsWide == WebResults \cup {[sources |-> <<>>, combined_content |-> 0]}

WebQueryWide == WebQueryFrom(WebResultsWide)

InitCollector ==
    /\ pc = "attachments"
    /\ session_id \in {<<>>, <<"s", "1">>}
    /\ data = NormalizeNumeric("segmento" :> Moda)
    /\ body = [present |-> TRUE, fields |-> ("segmento" :> Moda)]
    /\ cookie = session_id
    /\ comprehensive_data = InitialComprehensiveData
    /\ ai_analyses = EmptyDict
    /\ result = EmptyDict
    /\ returned = EmptyDict
    /\ response = NoResponse
    /\ calls = NoCalls
    /\ query_i = 0
    /\ raised = {}
    /\ trace = <<"validator">>
    /\ store = <<>>
    /\ list_call = <<>>
    /\ create_call = <<>>

NextCollector ==
    \/ CollectAttachments
    \/ ProbeWebResearch
    \/ WebQueryWide
    \/ CollectLocal

SpecCollector == InitCollector /\ [][NextCollector]_vars

-----------------------------------------------------------------------------
(* The request under a scheduler that lets the handling thread run: every  *)
(* step of the handler is taken once it is enabled (each collaborator call *)
(* returns or raises).                                                     *)

\* the bodies of the run: none, or a mapping with or without a segmento, a
\* session id and an objetivo_receita
LiveBodies ==
    {[present |-> FALSE, fields |-> EmptyDict]} \cup
    {[present |-> TRUE, fields |-> a @@ c @@ e] :
        a \in SegmentoOptions, c \in FieldOptions("objetivo_receita"),
        e \in SessionOptions}

InitLive ==
    /\ Init
    /\ body \in LiveBodies

SpecLive == InitLive /\ [][Next]_vars /\ WF_vars(Next)

-----------------------------------------------------------------------------
(* Properties *)

InTrace(stage) == \E i \in 1..Len(trace) : trace[i] = stage

\* the body is absent or empty, or its segmento is missing or empty
RequestRejected ==
    \/ ~body.present
    \/ body.fields = EmptyDict
    \/ "segmento" \notin DOMAIN body.fields
    \/ body.fields["segmento"] = <<>>

HasMetadata(doc) == Has(doc, "metadata_ultra_detalhado")

Metadata(doc) == doc["metadata_ultra_detalhado"]

IsEmergency(doc) ==
    /\ HasMetadata(doc)
    /\ "emergency_mode" \in DOMAIN Metadata(doc)
    /\ Metadata(doc).emergency_mode

\* the document is a fallback document carrying the error text
CarriesError(doc, error) ==
    /\ IsEmergency(doc)
    /\ Metadata(doc).error = error
    /\ Has(doc, "insights_exclusivos_real_ultra")
    /\ \E i \in 1..Len(doc["insights_exclusivos_real_ultra"]) :
          doc["insights_exclusivos_real_ultra"][i] = Insight("Erro detectado: ", error, 0)

\* the exceptions no call site catches
OrchestratorUncaught == {"attachment", "is_available", "navigate", "consolidator"}
HandlerUncaught == {"jsonify"}

RaisedText(who) == IF who = "consolidator" THEN ConsolidateError(data) ELSE ErrorText(who)

\* C1: a request with no body, an empty body, or a missing or empty segmento
\* is answered 400, and no collaborator is called while it is handled.
C1_RejectedWithoutCollaborators ==
    RequestRejected =>
        /\ calls = NoCalls
        /\ pc \in {"validate", "done"}
        /\ pc = "done" => response.status = 400

C1_Witness ==
    /\ pc = "done"
    /\ body.present
    /\ Has(body.fields, "segmento")
    /\ Has(body.fields, "preco")
    /\ body.fields["segmento"] = <<>>
    /\ response.status = 400

\* C2 as stated: after validation, any uncaught exception, in the handler or
\* in the orchestrator, still gives a 200 response in emergency mode that
\* carries the error text.
C2_AnyUncaughtGivesEmergency ==
    (pc = "done" /\ ~RequestRejected) =>
        \A who \in raised \cap (OrchestratorUncaught \cup HandlerUncaught) :
            /\ response.status = 200
            /\ CarriesError(response.body, RaisedText(who))

\* C2 amended: an uncaught exception inside the orchestrator call gives a 200
\* response in emergency mode that carries the error text.
C2_OrchestratorUncaughtGivesEmergency ==
    (pc = "done" /\ ~RequestRejected) =>
        \A who \in raised \cap OrchestratorUncaught :
            /\ response.status = 200
            /\ CarriesError(response.body, RaisedText(who))

C2_Witness ==
    /\ pc = "done"
    /\ "consolidator" \in raised
    /\ response.status = 200
    /\ CarriesError(response.body, ConsolidateError(data))

CollectorCalls == {"attachment", "is_available", "navigate"}

\* C3: the collector never throws: whatever collaborator call of the
\* collector raised, the collector goes on and returns an aggregate whose
\* local sections are filled.
C3_CollectorNeverThrows ==
    (raised \cap CollectorCalls # {}) =>
        \/ pc \in {"probe", "web", "local"}
        \/ /\ InTrace("local")
           /\ Truthy(comprehensive_data.market_intelligence)
           /\ Truthy(comprehensive_data.competitor_analysis)
           /\ Truthy(comprehensive_data.trend_analysis)

\* C4: when a web-research query raises, the later queries are still issued
\* and the results of the queries that succeeded are kept.
C4_PerQueryIsolation ==
    (pc = "done" /\ "navigate" \in raised) =>
        /\ calls.navigate = Len(GenerateQueries(data))
        /\ comprehensive_data.research_iterations > 0 =>
              /\ Has(response.body, "pesquisa_web_real_detalhada")
              /\ response.body["pesquisa_web_real_detalhada"]
                    = comprehensive_data.web_research

\* no call raised other than those of allowed, the consolidator apart
NoFailureBut(allowed) ==
    raised \subseteq (allowed \cup {"consolidator"})

\* C5: when the primary LLM call raises (and no other collaborator fails),
\* the response carries the avatar section of the basic template, and the
\* pipeline goes through the consolidator and the scorer without entering
\* emergency mode.
C5_PrimaryFailureAbsorbed ==
    (pc = "done" /\ "gemini" \in raised /\ NoFailureBut({"gemini"})) =>
        /\ response.status = 200
        /\ HasTruthy(response.body, "avatar_ultra_detalhado")
        /\ response.body["avatar_ultra_detalhado"]
              = GenerateBasicRealGeminiAnalysis(data)["avatar_ultra_detalhado"]
        /\ ~IsEmergency(response.body)
        /\ InTrace("scorer")

\* the availability probe returned False
WebUnavailable == InTrace("probe") /\ "is_available" \notin raised /\ query_i = 0

GeneratedSections ==
    {"insights_exclusivos_real_ultra", "plano_implementacao_real_completo",
     "metricas_sucesso_real_avancadas", "cronograma_real_365_dias",
     "sistema_monitoramento_real", "metadata_ultra_detalhado"}

\* C6: when the web-research agent reports itself unavailable (and no
\* collaborator fails), no query is issued, the web_research section stays
\* empty, the result has no web-research key, and the response is a complete
\* AnalysisResult.
C6_UnavailableStillComplete ==
    (WebUnavailable /\ NoFailureBut({})) =>
        /\ calls.navigate = 0
        /\ ~Truthy(comprehensive_data.web_research)
        /\ pc = "done" =>
              /\ response.status = 200
              /\ ~Has(response.body, "pesquisa_web_real_detalhada")
              /\ GeneratedSections \subseteq DOMAIN response.body

IsNonNumericStr(v) ==
    v.t = "str" /\ Len(v.s) > 0 /\ ~IsFloatLiteral(ReplaceComma(v.s))

\* a decimal literal written with a comma or a point
IsDecimalStr(v) ==
    v.t = "str" /\ IsFloatLiteral(ReplaceComma(v.s)) /\ Dots(ReplaceComma(v.s)) # {}

\* the sections of doc that read field f hold the figures computed from v
UsesValue(doc, f, v) ==
    CASE f = "objetivo_receita" ->
            /\ Has(doc, "plano_implementacao_real_completo")
            /\ doc["plano_implementacao_real_completo"].fase_1_fundacao_real.investimento_estimado
                  = <<IntMul(v, 15), IntMul(v, 25)>>
      [] f = "preco" ->
            /\ Has(doc, "metricas_sucesso_real_avancadas")
            /\ doc["metricas_sucesso_real_avancadas"].ticket_medio = IntOf(v)
      [] f = "orcamento_marketing" ->
            /\ Has(doc, "sistema_monitoramento_real")
            /\ doc["sistema_monitoramento_real"].alerta_cac = IntMul(v, 40)

\* C7: a numeric field given as a non-numeric str is normalized to 0.0, the
\* request is not rejected, and (no collaborator failing) the pipeline uses
\* the zero where it reads the field.
C7_NonNumericBecomesZero ==
    (pc = "done" /\ ~RequestRejected /\ NoFailureBut({})) =>
        \A f \in NumericFields :
            (Has(body.fields, f) /\ IsNonNumericStr(body.fields[f])) =>
                /\ data[FloatKey(f)] = Zero
                /\ response.status = 200
                /\ UsesValue(response.body, f, Zero)

\* C8: when objetivo_receita is a decimal str that parses to v (and no
\* collaborator fails), the response carries the implementation plan, and
\* the figures of fase_1_fundacao_real are 15% and 25% of v.
C8_DecimalStringPlan ==
    (pc = "done" /\ ~RequestRejected /\ NoFailureBut({})
        /\ Has(body.fields, "objetivo_receita")
        /\ IsDecimalStr(body.fields["objetivo_receita"])) =>
            /\ response.status = 200
            /\ UsesValue(response.body, "objetivo_receita",
                         CoerceFloat(body.fields["objetivo_receita"]))

InScoreRange(x) == x >= 0 /\ x <= MaxScore

\* C9: for every document the quality score and the completeness score are in
\* [0,100], and so are the scores of the metadata block, normal or emergency.
C9_ScoresInRange ==
    /\ InScoreRange(CalculateQualityScore(result))
    /\ InScoreRange(CalculateCompletenessScore(result))
    /\ HasMetadata(result) =>
          /\ InScoreRange(Metadata(result).quality_score)
          /\ InScoreRange(Metadata(result).completeness_score)

\* a document whose points add up to more than 100 was scored
C9_Witness ==
    /\ HasMetadata(result)
    /\ ~IsEmergency(result)
    /\ CalculateQualityScoreUnclamped(result) > MaxScore
    /\ Metadata(result).quality_score = MaxScore
    /\ Metadata(result).completeness_score = MaxScore

\* C10: when the data store raises while persisting, the handler goes on and
\* answers 200 with the document the orchestrator returned, without a
\* database_id.
C10_PersistFailureIgnored ==
    ("db" \in raised) =>
        /\ pc \in {"respond", "done"}
        /\ result = returned
        /\ pc = "done" =>
              /\ response.status = 200
              /\ response.body = returned
              /\ ~Has(response.body, "database_id")

C10_Witness ==
    /\ pc = "done"
    /\ "db" \in raised
    /\ response.status = 200
    /\ ~IsEmergency(response.body)
    /\ response.body = returned

\* the fallback generator has run
Fell(t) == \E i \in 1..Len(t) : t[i] = "fallback"

\* what every document of the orchestrator carries
IsDocument(doc) ==
    /\ HasTruthy(doc, "avatar_ultra_detalhado")
    /\ HasTruthy(doc, "escopo_posicionamento")
    /\ HasTruthy(doc, "estrategia_palavras_chave")
    /\ HasTruthy(doc, "insights_exclusivos_real_ultra")
    /\ HasMetadata(doc)

\* the orchestrator has returned to line 947
OrchestratorReturned == pc \in {"persist", "respond", "done"} /\ ~RequestRejected

\* C11: every validated request gets a document back from the orchestrator;
\* when the fallback generator produced it, the generator did not fail, and
\* the step that ran it made no collaborator call besides the one that raised.
C11_FallbackNeverFails ==
    /\ [](OrchestratorReturned => (returned # EmptyDict /\ HasMetadata(returned)))
    /\ []((OrchestratorReturned /\ Fell(trace)) => IsDocument(returned))
    /\ [][(~Fell(trace) /\ Fell(trace')) =>
            \A c \in DOMAIN calls :
                calls'[c] = calls[c] + (IF c \in raised' \ raised THEN 1 ELSE 0)]_vars

\* the consolidator raised and the fallback document came back
C11_Witness ==
    /\ pc = "persist"
    /\ Fell(trace)
    /\ raised = {"consolidator"}
    /\ IsDocument(returned)
    /\ IsEmergency(returned)

\* C12: a fallback document carries the error text in its insight list and
\* in its metadata, scores 35 and 25, emergency_mode true and
\* real_data_guarantee false; a document of the normal path never has
\* emergency_mode true.
C12_EmergencyMarkers ==
    OrchestratorReturned =>
        IF Fell(trace)
        THEN /\ \E who \in raised \cap OrchestratorUncaught :
                    CarriesError(returned, RaisedText(who))
             /\ Metadata(returned).quality_score = 3500
             /\ Metadata(returned).completeness_score = 2500
             /\ Metadata(returned).emergency_mode = TRUE
             /\ Metadata(returned).real_data_guarantee = FALSE
        ELSE /\ ~IsEmergency(returned)
             /\ "emergency_mode" \notin DOMAIN Metadata(returned)

\* a web-research call raised, and the response carries its message
C12_Witness ==
    /\ pc = "done"
    /\ Fell(trace)
    /\ "navigate" \in raised
    /\ response.status = 200
    /\ CarriesError(response.body, ErrorText("navigate"))
    /\ Metadata(response.body).quality_score = 3500

\* the limit and the offset of the query string are absent or integers
ListArgsParse == ~ArgRaises(data, "limit") /\ ~ArgRaises(data, "offset")

\* C13: GET /analyses passes the data store min(requested limit, 100) and the
\* requested offset, 20 and 0 standing for an absent limit and offset, and a
\* successful response echoes both.
C13_LimitCapped ==
    (pc = "done" /\ InTrace("list") /\ ListArgsParse) =>
        LET requested == IF Has(data, "limit") THEN IntOfLiteral(data["limit"]) ELSE 20
            offset == IF Has(data, "offset") THEN IntOfLiteral(data["offset"]) ELSE 0
        IN  /\ list_call = <<IF requested <= 100 THEN requested ELSE 100, offset>>
            /\ response.status = 200 =>
                  /\ response.body.limit = list_call[1]
                  /\ response.body.offset = list_call[2]

\* limit=500 was asked for and 100 came back
C13_Witness ==
    /\ pc = "done"
    /\ Has(data, "limit")
    /\ data["limit"] = <<"5", "0", "0">>
    /\ list_call[1] = 100
    /\ response.status = 200
    /\ response.body.limit = 100

\* the place of a trace entry in the order validator, collector,
\* synthesizer, consolidator, scorer, persistence, response; the fallback
\* generator writes the scores in the scorer's place
StageRank(stage) ==
    CASE stage = "validator" -> 1
      [] stage \in {"collector", "probe", "web", "local"} -> 2
      [] stage \in {"synthesizer", "secondary"} -> 3
      [] stage = "consolidator" -> 4
      [] stage \in {"scorer", "fallback"} -> 5
      [] stage = "persistence" -> 6
      [] stage = "response" -> 7

Entries(stage) == {i \in 1..Len(trace) : trace[i] = stage}

PipelineStages ==
    {"validator", "collector", "synthesizer", "consolidator", "scorer",
     "persistence", "response"}

\* C14: the stages of one /analyze request run in the order validator,
\* collector, synthesizer, consolidator, scorer, persistence, response, each
\* once at most; persistence is attempted only when the scores are in the
\* document, and a validated request is answered only after the persistence
\* attempt.
C14_StageOrder ==
    /\ \A i \in 1..(Len(trace) - 1) : StageRank(trace[i]) <= StageRank(trace[i + 1])
    /\ \A stage \in PipelineStages \cup {"fallback"} : Cardinality(Entries(stage)) <= 1
    /\ InTrace("persistence") =>
          /\ InTrace("scorer") \/ InTrace("fallback")
          /\ HasMetadata(returned)
          /\ "quality_score" \in DOMAIN Metadata(returned)
          /\ "completeness_score" \in DOMAIN Metadata(returned)
    /\ calls.db > 0 => InTrace("persistence")
    /\ InTrace("response") => InTrace("persistence")
    /\ (response # NoResponse /\ ~RequestRejected) => InTrace("response")
    /\ (InTrace("response") /\ ~InTrace("fallback")) =>
          \A stage \in PipelineStages : InTrace(stage)

\* a request went through every stage and was stored
C14_Witness ==
    /\ pc = "done"
    /\ \A stage \in PipelineStages : InTrace(stage)
    /\ InTrace("web")
    /\ calls.db = 1
    /\ response.status = 200
    /\ Has(response.body, "database_id")

\* the keys of the first n queries
QueryKeys(n) == {QueryKey(i) : i \in 1..n}

\* the web-research loop has issued n calls, all of which returned
IssuedInOrder(n) ==
    /\ calls.navigate = n
    /\ calls.sleep = n
    /\ comprehensive_data.research_iterations = n
    /\ DOMAIN comprehensive_data.web_research = QueryKeys(n)
    /\ Cardinality(QueryKeys(n)) = n

\* the collector's web-research step is over, having found the agent available
WebLoopOver == query_i > 0 /\ pc # "web"

\* C15: when the web-research agent is available the collector calls it once
\* per query of the generated list, in list order and 12 times at most,
\* pausing after each call; when the loop is over research_iterations is the
\* number of queries and every result sits under the key of its query.
C15_OncePerQuery ==
    /\ calls.navigate <= 12
    /\ (pc = "web") => IssuedInOrder(query_i - 1)
    /\ WebLoopOver => IssuedInOrder(Len(GenerateQueries(data)))
    /\ (query_i = 0) => calls.navigate = 0

\* C16: when the secondary inference client raises, the synthesizer's mapping
\* stays as the primary call left it -- no secondary entry, no substitute, no
\* cross analysis, the primary entry untouched -- and the synthesizer returns
\* to the orchestrator, which goes on to the consolidator.
C16_SecondaryFailureSkipped ==
    [][(pc = "secondary" /\ "huggingface" \in raised') =>
          /\ ai_analyses' = ai_analyses
          /\ ~Has(ai_analyses', "huggingface_ultra_real")
          /\ ~Has(ai_analyses', "cross_validation_real")
          /\ pc' = "consolidate"
          /\ raised' = raised \cup {"huggingface"}
          /\ result' = result]_vars

\* the secondary call raised after the primary call had returned a document
C16_Witness ==
    /\ pc = "consolidate"
    /\ raised = {"huggingface"}
    /\ DOMAIN ai_analyses = {"gemini_ultra_real"}
    /\ ai_analyses["gemini_ultra_real"] = FullDoc

\* the primary LLM client was called and returned
PrimarySucceeded == calls.gemini = 1 /\ "gemini" \notin raised

\* the secondary inference client returned an analysis
SecondarySucceeded == Has(ai_analyses, "huggingface_ultra_real")

\* C17: once the synthesizer has returned, its mapping has the cross-analysis
\* entry exactly when the primary and the secondary client both succeeded.
C17_CrossWhenBothSucceeded ==
    InTrace("secondary") =>
        (Has(ai_analyses, "cross_validation_real")
            <=> (PrimarySucceeded /\ SecondarySucceeded))

\* a document the scorer has scored
Scored(doc) == HasMetadata(doc) /\ ~IsEmergency(doc)

\* C18: the quality score is 6.67 for each of the six checked sections that is
\* present and non-empty, 40 at most for the sections together; plus 30, 20,
\* 10 or 0 for at least 15, at least 10, at least 5 or fewer insights; plus 15
\* for each of the two research keys present; the total cut to [0,100].
C18_QualityFormula ==
    Scored(result) =>
        LET present == {s \in {"avatar_ultra_detalhado", "escopo",
                               "estrategia_palavras_chave", "insights_exclusivos_ultra",
                               "plano_implementacao_completo",
                               "metricas_sucesso_avancadas"} :
                            s \in DOMAIN result /\ DOMAIN result[s] # {}}
            sections == IF Cardinality(present) * 667 <= 4000
                        THEN Cardinality(present) * 667 ELSE 4000
            n == IF "insights_exclusivos_ultra" \in DOMAIN result
                 THEN Len(result["insights_exclusivos_ultra"]) ELSE 0
            depth == IF n >= 15 THEN 3000 ELSE IF n >= 10 THEN 2000
                     ELSE IF n >= 5 THEN 1000 ELSE 0
            research == (IF "pesquisa_web_detalhada" \in DOMAIN result THEN 1500 ELSE 0)
                        + (IF "inteligencia_mercado_ultra" \in DOMAIN result
                           THEN 1500 ELSE 0)
            total == sections + depth + research
        IN  Metadata(result).quality_score = (IF total <= 10000 THEN total ELSE 10000)

\* doc without the key k
Without(doc, k) == [x \in (DOMAIN doc) \ {k} |-> doc[x]]

\* C19: the completeness score is 100 times the number of the ten expected
\* keys present with a non-empty value, divided by 10; it is one of 0, 10,
\* ..., 100, and a document with fewer keys never scores higher.
C19_CompletenessFormula ==
    /\ Scored(result) =>
          LET present == {s \in {"avatar_ultra_detalhado", "escopo",
                                 "estrategia_palavras_chave",
                                 "insights_exclusivos_ultra",
                                 "plano_implementacao_completo",
                                 "metricas_sucesso_avancadas", "cronograma_365_dias",
                                 "sistema_monitoramento", "inteligencia_mercado_ultra",
                                 "analise_concorrencia_ultra"} :
                              s \in DOMAIN result /\ DOMAIN result[s] # {}}
          IN  /\ Metadata(result).completeness_score * 10
                    = 10000 * Cardinality(present)
              /\ Metadata(result).completeness_score \in {1000 * k : k \in 0..10}
    /\ \A k \in DOMAIN result :
          CalculateCompletenessScore(Without(result, k))
              <= CalculateCompletenessScore(result)

\* three keys count, and a fourth expected key is there with an empty value
C19_Witness ==
    /\ Scored(result)
    /\ Metadata(result).completeness_score = 3000
    /\ Has(result, "avatar_ultra_detalhado")
    /\ ~HasTruthy(result, "avatar_ultra_detalhado")

\* C20: both lookups lower the segment and take the health record when it
\* holds "medicina" or "saúde", else the digital record when it holds
\* "digital" or "online", else the generic record; so a segment of both groups
\* gets the health record, and the two lookups never differ in their branch.
C20_LookupBranches ==
    InTrace("local") =>
        LET s == Lower(Get(data, "segmento", <<>>))
            health == Contains(s, Medicina) \/ Contains(s, Saude)
            digital == Contains(s, Digital) \/ Contains(s, Online)
            mi == comprehensive_data.market_intelligence
            tr == comprehensive_data.trend_analysis
        IN  /\ health =>
                  /\ mi.market_size = "R$ 280 bilhões (mercado de saúde brasileiro)"
                  /\ tr.emerging_trends = "Telemedicina permanente (regulamentada pelo CFM)"
            /\ (~health /\ digital) =>
                  /\ mi.market_size = "R$ 185 bilhões (e-commerce brasileiro 2024)"
                  /\ tr.emerging_trends = "Social commerce e live commerce"
            /\ (~health /\ ~digital) =>
                  /\ mi.market_size = "Mercado em expansão no Brasil"
                  /\ tr.emerging_trends = "Inteligência Artificial aplicada ao negócio"

\* "SAÚDE digital" got the health record from both lookups
C20_Witness ==
    /\ InTrace("local")
    /\ Has(data, "segmento")
    /\ data["segmento"] = SaudeUpper \o <<" ">> \o Digital
    /\ comprehensive_data.market_intelligence.market_size
          = "R$ 280 bilhões (mercado de saúde brasileiro)"
    /\ comprehensive_data.trend_analysis.declining_trends
          = "Consultas presenciais exclusivas"

\* the request names a session, in its body or in the flask session
HasSession ==
    \/ ("session_id" \in DOMAIN body.fields /\ body.fields["session_id"] # <<>>)
    \/ cookie # <<>>

\* C21: the attachment service is called only for a request with a session
\* id; without one it is never called, the attachments section stays empty,
\* and the attachment step leaves the content-length and source counters as
\* they were (zero after it, and fed by the web research alone later).
C21_AttachmentsOnlyWithSession ==
    /\ calls.attachment > 0 => (HasSession /\ ~RequestRejected)
    /\ (~HasSession /\ InTrace("validator")) =>
          /\ calls.attachment = 0
          /\ comprehensive_data.attachments = EmptyDict
          /\ pc = "probe" =>
                /\ comprehensive_data.total_content_length = 0
                /\ comprehensive_data.real_data_sources = 0
          /\ comprehensive_data.real_data_sources = Len(comprehensive_data.sources)

\* a request without a session id went through the web research to its answer
C21_Witness ==
    /\ pc = "done"
    /\ ~HasSession
    /\ InTrace("collector")
    /\ InTrace("web")
    /\ calls.attachment = 0
    /\ comprehensive_data.attachments = EmptyDict
    /\ comprehensive_data.real_data_sources > 0
    /\ response.status = 200

\* a fallback document without the insight list and the metadata block laid
\* over its base
FallbackBase(doc) ==
    Without(Without(doc, "insights_exclusivos_real_ultra"), "metadata_ultra_detalhado")

\* C22 as stated: the base of every fallback document is the document the
\* synthesizer substitutes for a failed primary LLM call.
C22_FallbackBaseIsSubstitute ==
    (OrchestratorReturned /\ Fell(trace)) =>
        /\ FallbackBase(returned) = GenerateBasicRealGeminiAnalysis(data)
        /\ "gemini" \in raised =>
              FallbackBase(returned) = ai_analyses["gemini_ultra_real"]

\* C22: the base of every fallback document is the basic analysis of lines
\* 762-812, with its three sections; the document substituted for a failed
\* primary LLM call is another one, with two sections and other wording.
C22_FallbackBaseIsBasicAnalysis ==
    (OrchestratorReturned /\ Fell(trace)) =>
        /\ FallbackBase(returned) = GenerateBasicRealAnalysis(data)
        /\ DOMAIN FallbackBase(returned)
              = {"avatar_ultra_detalhado", "escopo_posicionamento",
                 "estrategia_palavras_chave"}
        /\ "gemini" \in raised =>
              /\ DOMAIN ai_analyses["gemini_ultra_real"]
                    = {"avatar_ultra_detalhado", "escopo_posicionamento"}
              /\ \A k \in DOMAIN ai_analyses["gemini_ultra_real"] :
                    ai_analyses["gemini_ultra_real"][k] # FallbackBase(returned)[k]

\* the primary call raised, the substitute was stored, and the consolidator
\* then raised: both templates are in the state
C22_Witness ==
    /\ pc = "persist"
    /\ Fell(trace)
    /\ raised = {"gemini", "consolidator"}
    /\ ai_analyses["gemini_ultra_real"] = GenerateBasicRealGeminiAnalysis(data)
    /\ Has(returned, "estrategia_palavras_chave")

\* the sections the collector's research and the consolidator's generators
\* put in a document
ResearchAndPlanSections ==
    {"pesquisa_web_real_detalhada", "inteligencia_mercado_real_ultra",
     "analise_concorrencia_real_ultra", "analise_tendencias_real_ultra",
     "plano_implementacao_real_completo", "metricas_sucesso_real_avancadas",
     "cronograma_real_365_dias", "sistema_monitoramento_real"}

\* C23: when an exception leaves the collector, the consolidator or a scorer,
\* the orchestrator returns the emergency fallback, which has none of the
\* research sections and no plan, metrics, timeline or monitoring section,
\* whatever the web research had already brought back.
C23_AllOrNothing ==
    (OrchestratorReturned /\ raised \cap OrchestratorUncaught # {}) =>
        /\ Fell(trace)
        /\ IsEmergency(returned)
        /\ DOMAIN returned \cap ResearchAndPlanSections = {}
        /\ DOMAIN returned
              = {"avatar_ultra_detalhado", "escopo_posicionamento",
                 "estrategia_palavras_chave", "insights_exclusivos_real_ultra",
                 "metadata_ultra_detalhado"}

\* a web-research call raised after others had completed, and their results
\* are not in the response
C23_Witness ==
    /\ pc = "done"
    /\ "navigate" \in raised
    /\ comprehensive_data.research_iterations > 0
    /\ Truthy(comprehensive_data.web_research)
    /\ response.status = 200
    /\ IsEmergency(response.body)
    /\ ~Has(response.body, "pesquisa_web_real_detalhada")

\* the base of the consolidated document is a local template: the one
\* substituted for a failed primary call, or the consolidator's own
PrimaryRaised == "gemini" \in raised
PrimaryAbsent == calls.gemini = 0

\* C24: the scorers read keys the consolidator never writes.  On the normal
\* path the metadata of a document built on a local template reports 6.67
\* and 10 when the primary LLM call raised, 13.34 and 20 when there is no
\* primary client -- less than the 35 and 25 of the emergency fallback -- and
\* unique_insights_generated 0 next to a list of 20 insights.
C24_ScorerKeyDrift ==
    (InTrace("scorer") /\ (PrimaryRaised \/ PrimaryAbsent)) =>
        /\ PrimaryRaised =>
              /\ Metadata(returned).quality_score = 667
              /\ Metadata(returned).completeness_score = 1000
        /\ PrimaryAbsent =>
              /\ Metadata(returned).quality_score = 1334
              /\ Metadata(returned).completeness_score = 2000
        /\ Metadata(returned).quality_score < 3500
        /\ Metadata(returned).completeness_score < 2500
        /\ Metadata(returned).unique_insights_generated = 0
        /\ Len(returned["insights_exclusivos_real_ultra"]) = 20
        /\ DOMAIN returned \cap
              {"escopo", "insights_exclusivos_ultra", "plano_implementacao_completo",
               "metricas_sucesso_avancadas", "cronograma_365_dias",
               "sistema_monitoramento", "inteligencia_mercado_ultra",
               "analise_concorrencia_ultra", "pesquisa_web_detalhada"} = {}

\* the primary call raised, and the answer reports 6.67 and 10
C24_Witness ==
    /\ pc = "done"
    /\ PrimaryRaised
    /\ InTrace("scorer")
    /\ response.status = 200
    /\ Metadata(response.body).quality_score = 667
    /\ Metadata(response.body).completeness_score = 1000
    /\ Len(response.body["insights_exclusivos_real_ultra"]) = 20

\* C25: a fallback document has its error inside the metadata block only, so
\* the handler stores it like any other: create_analysis is called once, with
\* the fallback document and status 'completed'.  The store is never called
\* for an empty document or one with a top-level error key.
C25_FallbackPersisted ==
    /\ (Fell(trace) /\ InTrace("persistence")) =>
          /\ "error" \notin DOMAIN returned
          /\ "error" \in DOMAIN Metadata(returned)
          /\ calls.db = 1
          /\ create_call # <<>>
          /\ create_call.status = "completed"
          /\ create_call.comprehensive_analysis = returned
    /\ calls.db > 0 => (returned # EmptyDict /\ "error" \notin DOMAIN returned)
    /\ calls.db = 0 => create_call = <<>>

\* a fallback document was stored and answered with its database id
C25_Witness ==
    /\ pc = "done"
    /\ Fell(trace)
    /\ calls.db = 1
    /\ create_call.status = "completed"
    /\ IsEmergency(create_call.comprehensive_analysis)
    /\ response.status = 200
    /\ Has(response.body, "database_id")

RECURSIVE SourcesStored(_, _)
\* the source counts of the results under the first n query keys, summed
SourcesStored(web_research, n) ==
    IF n = 0 THEN 0
    ELSE SourcesStored(web_research, n - 1) + Len(web_research[QueryKey(n)].sources)

\* the attachments the attachment service returned
FetchedAttachments ==
    IF comprehensive_data.attachments = EmptyDict THEN 0
    ELSE comprehensive_data.attachments.count

\* C26: throughout the collector -- after the attachment step, after every
\* iteration of the web-research loop, at its return -- research_iterations
\* is the number of entries of web_research, sources is as long as the
\* source lists of the stored results together, real_data_sources is the
\* number of fetched attachments plus the length of sources, and cache_hits
\* is 0.
C26_CollectorCounters ==
    /\ comprehensive_data.research_iterations
          = Cardinality(DOMAIN comprehensive_data.web_research)
    /\ DOMAIN comprehensive_data.web_research
          = {QueryKey(i) : i \in 1..comprehensive_data.research_iterations}
    /\ Len(comprehensive_data.sources)
          = SourcesStored(comprehensive_data.web_research,
                          comprehensive_data.research_iterations)
    /\ comprehensive_data.real_data_sources
          = FetchedAttachments + Len(comprehensive_data.sources)
    /\ comprehensive_data.cache_hits = 0

\* the collector returned with an attachment and ten results, some of them
\* without sources
C26_Witness ==
    /\ pc = "primary"
    /\ FetchedAttachments = 1
    /\ comprehensive_data.research_iterations = 10
    /\ Len(comprehensive_data.sources) > 0
    /\ Len(comprehensive_data.sources) < 10 * MaxSources
    /\ comprehensive_data.real_data_sources = 1 + Len(comprehensive_data.sources)

\* GET /analyses was answered with a list
Listed == pc = "done" /\ InTrace("list") /\ response.status = 200

\* the page the data store returned for the call the handler made
PageReturned == ListPage(store, list_call[1], list_call[2])

\* the record a has a nicho that holds seg, letter case aside
NichoMatches(a, seg) ==
    "nicho" \in DOMAIN a /\ Contains(Lower(a.nicho), Lower(seg))

\* the records of PageReturned the segmento parameter lets through, in order
PageFiltered ==
    LET seg == IF "segmento" \in DOMAIN data THEN data["segmento"] ELSE <<>>
        Keep(a) == NichoMatches(a, seg)
    IN  IF seg = <<>> THEN PageReturned ELSE SelectSeq(PageReturned, Keep)

\* C27 as stated: the answer holds the records of the store's page that match
\* segmento, in the store's order, count is their number, and count never
\* exceeds the effective limit.
C27_FilterAfterPaginationWithinLimit ==
    Listed =>
        /\ response.body.analyses = PageFiltered
        /\ response.body.count = Len(response.body.analyses)
        /\ response.body.count <= response.body.limit

\* C27: the answer holds the records of the store's page that match segmento,
\* in the store's order, and nothing from outside the page; count is their
\* number, never more than the page holds, and never more than an effective
\* limit of 0 or more.
C27_FilterAfterPagination ==
    Listed =>
        /\ response.body.analyses = PageFiltered
        /\ response.body.count = Len(response.body.analyses)
        /\ response.body.count <= Len(PageReturned)
        /\ response.body.limit >= 0 => response.body.count <= response.body.limit

\* two stored records match, the page holds one, and one is returned
C27_Witness ==
    /\ Listed
    /\ Len(store) = 2
    /\ \A i \in 1..2 : NichoMatches(store[i], ModaUpper)
    /\ Has(data, "segmento")
    /\ data["segmento"] = ModaUpper
    /\ list_call = <<1, 0>>
    /\ response.body.count = 1
    /\ response.body.analyses = <<store[1]>>

\* C28: every POST /analyze request comes to its end with one response, of
\* status 200, 400 or 500, which is never replaced; no collaborator is
\* called a second time (the web-research agent once per query at most, the
\* data store's create_analysis once at most); and status 500 comes only
\* from an exception raised in the handler outside the orchestrator call and
\* outside the persistence try block.
C28_TerminatesWithOneResponse ==
    /\ <>(pc = "done")
    /\ [](pc = "done" <=> response # NoResponse)
    /\ [](pc = "done" => response.status \in {200, 400, 500})
    /\ [][response # NoResponse => response' = response]_vars
    /\ [](/\ calls.attachment <= 1
          /\ calls.is_available <= 1
          /\ calls.gemini <= 1
          /\ calls.huggingface <= 1
          /\ calls.db <= 1
          /\ calls.navigate <= 10
          /\ query_i = 0 => calls.navigate = 0
          /\ query_i > 0 => calls.navigate <= query_i)
    /\ [](response.status = 500 =>
            /\ raised \cap {"jsonify"} # {}
            /\ InTrace("persistence")
            /\ returned # EmptyDict)

\* the handler's own except clause answered 500 after the orchestrator had
\* returned and the persistence block had been left
C28_Witness ==
    /\ pc = "done"
    /\ response.status = 500
    /\ "jsonify" \in raised
    /\ InTrace("persistence")
    /\ calls.db = 0

====
